---- MODULE Spec2Model ----
(***************************************************************************)
(* Resumable backup pipeline of zfs-remote-backup.                         *)
(*                                                                         *)
(* The repository holds three generations of the pipeline:                 *)
(*   - src/app/backup_manager.py  : the driver over one status document    *)
(*     (stages export, compress, encrypt, upload, done);                   *)
(*   - src/archive/python-legacy  : the driver over three documents        *)
(*     (queue, current task, latest snapshots) and its StatusManager;      *)
(*   - src/app/status_manager.py  : MockStatusManager, the thirteen-stage  *)
(*     stage inference.                                                    *)
(* Each is modelled as a world record changed by pure operators; Spec      *)
(* runs the app driver, SpecLegacy the legacy driver, SpecInfer applies    *)
(* the stage-inference functions to bounded current-task documents.        *)
(***************************************************************************)
EXTENDS Integers, Sequences, FiniteSets, TLC

VARIABLES app, last, leg, inf

vars == <<app, last, leg, inf>>

\* Bounds of the model.
MaxQueue == 2
MaxParts == 2

Min(a, b) == IF a < b THEN a ELSE b

(***************************************************************************)
(* Names.  A snapshot name is a sequence of its "@"-separated components:  *)
(* "pool1@s3" is <<"pool1", "s3">>, "" is <<>>.                            *)
(***************************************************************************)
BackupTypes == {"full", "diff", "incr"}
Pools == {"pool1"}
EmptyName == <<>>
ErrorNone == <<"ERROR_NONE">>

\* The snapshots of every dataset, newest first (the environment).
Snapshots == <<"s3", "s2", "s1">>

\* list(dataset): f"{dataset}@{s}" for every snapshot.
ListSnapshots(pool) == [i \in 1..Len(Snapshots) |-> <<pool, Snapshots[i]>>]

\* base.split("@")[-1]
LastComponent(name) == IF name = <<>> THEN <<>> ELSE <<name[Len(name)]>>

\* get_latest: None when nothing (or an empty name) is recorded.
GetLatest(latest, pool, type) == latest[<<pool, type>>]

\* A set_latest that overwrites the record of every type of the dataset.
SetLatestEveryType(latest, pool, type, name) ==
    [k \in DOMAIN latest |-> IF k[1] = pool THEN name ELSE latest[k]]

\* set_latest: the record of (dataset, type) is overwritten.
SetLatest(latest, pool, type, name) == [latest EXCEPT ![<<pool, type>>] = name]

NoLatest == [k \in Pools \X BackupTypes |-> EmptyName]

(***************************************************************************)
(* The app driver: src/app/backup_manager.py over src/app/status.py.       *)
(***************************************************************************)
Task(date, type, pool) == [date |-> date, type |-> type, pool |-> pool]

ZeroStage ==
    [exported |-> FALSE, compressed |-> 0, encrypted |-> 0,
     uploaded |-> 0, removed |-> 0]

\* MsgpackBackupStatusIo.load of a missing file.
NewStatus ==
    [queue |-> <<>>,
     current |-> [base |-> EmptyName, ref |-> EmptyName,
                  split_quantity |-> 0, stage |-> ZeroStage]]

\* temp_path: TEMP_DIR / pool / type_date
TempPath(task) == <<task.pool, task.type, task.date>>

\* A local chunk file: filename + 6-digit index + codec extensions.
ChunkFile(dir, index, ext) == [dir |-> dir, index |-> index, ext |-> ext]

RawExt == ""
ZstExt == ".zst"
AgeExt == ".zst.age"

FilesIn(files, dir) == {f \in files : f.dir = dir}

\* __is_error_stage
IsErrorStage(current, total) == total < 0 \/ current < 0

\* __get_stage on the in-memory status.
GetStage(st) ==
    LET stage == st.current.stage
        split_qty == st.current.split_quantity
    IN  IF ~stage.exported THEN <<"export", 0, 0>>
        ELSE IF split_qty <= 0 THEN <<"export", -1, split_qty>>
        ELSE IF stage.compressed > split_qty
            THEN <<"compress", -stage.compressed, -split_qty>>
        ELSE IF stage.compressed < split_qty
            THEN <<"compress", stage.compressed, split_qty>>
        ELSE IF stage.encrypted > split_qty
            THEN <<"encrypt", -stage.encrypted, -split_qty>>
        ELSE IF stage.encrypted < split_qty
            THEN <<"encrypt", stage.encrypted, split_qty>>
        ELSE IF stage.uploaded > split_qty
            THEN <<"upload", -stage.uploaded, -split_qty>>
        ELSE IF stage.uploaded < split_qty
            THEN <<"upload", stage.uploaded, split_qty>>
        ELSE <<"done", 0, split_qty>>

\* A __load_backup_task that looks up the latest snapshot of the task's own
\* type as the reference.
LoadBackupTaskOwnType(w) ==
    LET st == w.mem
    IN  IF Len(st.queue) = 0 THEN st
        ELSE LET task == Head(st.queue)
                 found == IF GetLatest(w.latest, task.pool, task.type) = EmptyName
                          THEN ErrorNone
                          ELSE GetLatest(w.latest, task.pool, task.type)
             IN  [st EXCEPT !.current =
                     [base |-> ListSnapshots(task.pool)[1],
                      ref |-> IF task.type = "full" THEN EmptyName ELSE found,
                      split_quantity |-> 0, stage |-> ZeroStage]]

\* __load_backup_task: clears the in-memory progress and resolves base, ref.
LoadBackupTask(w) ==
    LET st == w.mem
    IN  IF Len(st.queue) = 0 THEN st
        ELSE LET task == Head(st.queue)
                 found(t) == IF GetLatest(w.latest, task.pool, t) = EmptyName
                             THEN ErrorNone
                             ELSE GetLatest(w.latest, task.pool, t)
                 ref == CASE task.type = "full" -> EmptyName
                          [] task.type = "diff" -> found("full")
                          [] task.type = "incr" -> found("diff")
             IN  [st EXCEPT !.current =
                     [base |-> ListSnapshots(task.pool)[1], ref |-> ref,
                      split_quantity |-> 0, stage |-> ZeroStage]]

\* __save_status: the whole in-memory status replaces the document.
SaveStatus(w) == [w EXCEPT !.disk = w.mem]

\* BackupTaskManager.__init__: load the document, then __load_backup_task.
Construct(w) ==
    LET loaded == [w EXCEPT !.mem = w.disk]
    IN  [loaded EXCEPT !.mem = LoadBackupTask(loaded)]

Ok(w) == [w |-> w, ok |-> TRUE]
Raised(w) == [w |-> w, ok |-> FALSE]

\* What the producer writes for a task: MaxParts chunks, or nothing when the
\* base or the reference snapshot does not exist (zfs send fails and split
\* receives an empty stream).
StreamParts(w, task) ==
    IF w.mem.current.ref = ErrorNone \/ w.mem.current.base = EmptyName
    THEN 0 ELSE MaxParts

\* __handle_export_stage, statement k.
HandleExportStage(w, k) ==
    LET task == Head(w.mem.queue)
        dir == TempPath(task)
    IN  CASE k = 1 ->
             \* export: split writes the chunk files of the stream
             Ok([w EXCEPT !.files = @ \cup
                    {ChunkFile(dir, i, RawExt) : i \in 0..(StreamParts(w, task) - 1)}])
          [] k = 2 ->
             \* num_parts is the number of files matching filename* in the
             \* output directory; __set_stage_export(num_parts)
             Ok(SaveStatus([w EXCEPT
                    !.mem.current.stage.exported = TRUE,
                    !.mem.current.split_quantity =
                        Cardinality(FilesIn(w.files, dir))]))

\* __set_stage_compress(done)
SetStageCompress(w, done) ==
    SaveStatus([w EXCEPT !.mem.current.stage.compressed = done])

\* __handle_compress_stage, statement k; verifyOk is the codec's verdict.
HandleCompressStage(w, index, k, verifyOk) ==
    LET dir == TempPath(Head(w.mem.queue))
        raw == ChunkFile(dir, index, RawExt)
        zst == ChunkFile(dir, index, ZstExt)
    IN  CASE k = 1 -> IF raw \in w.files
                      THEN Ok([w EXCEPT !.files = @ \cup {zst}])
                      ELSE Raised(w)
          [] k = 2 -> Ok(SetStageCompress(w, index + 1))
          [] k = 3 -> IF verifyOk /\ zst \in w.files THEN Ok(w) ELSE Raised(w)
          [] k = 4 -> IF raw \in w.files
                      THEN Ok([w EXCEPT !.files = @ \ {raw}])
                      ELSE Raised(w)
          [] k = 5 -> Ok(SetStageCompress(w, index + 1))

\* An encrypt handler that does not record the chunk as encrypted.
HandleEncryptStageUnrecorded(w, index, k) ==
    LET dir == TempPath(Head(w.mem.queue))
        zst == ChunkFile(dir, index, ZstExt)
        age == ChunkFile(dir, index, AgeExt)
    IN  CASE k = 1 -> IF zst \in w.files
                      THEN Ok([w EXCEPT !.files = @ \cup {age}])
                      ELSE Raised(w)
          [] k = 2 -> IF zst \in w.files
                      THEN Ok([w EXCEPT !.files = @ \ {zst}])
                      ELSE Raised(w)
          [] k = 3 -> Ok(SaveStatus(w))

\* __handle_encrypt_stage, statement k.
HandleEncryptStage(w, index, k) ==
    LET dir == TempPath(Head(w.mem.queue))
        zst == ChunkFile(dir, index, ZstExt)
        age == ChunkFile(dir, index, AgeExt)
    IN  CASE k = 1 -> IF zst \in w.files
                      THEN Ok([w EXCEPT !.files = @ \cup {age}])
                      ELSE Raised(w)
          [] k = 2 -> IF zst \in w.files
                      THEN Ok([w EXCEPT !.files = @ \ {zst}])
                      ELSE Raised(w)
          [] k = 3 -> Ok(SaveStatus(
                         [w EXCEPT !.mem.current.stage.encrypted = index + 1]))

\* MockRemoteStorageHandler.upload: the object under the key is overwritten.
Upload(remote, key, tags, metadata) ==
    {o \in remote : o.key # key}
        \cup {[key |-> key, tags |-> tags, metadata |-> metadata]}

\* __handle_update_stage, statement k.
HandleUpdateStage(w, index, k) ==
    LET task == Head(w.mem.queue)
        age == ChunkFile(TempPath(task), index, AgeExt)
    IN  CASE k = 1 -> IF age \in w.files
                      THEN Ok([w EXCEPT !.remote =
                                 Upload(@, age, task.type,
                                        [pool |-> task.pool,
                                         base |-> w.mem.current.base,
                                         ref |-> w.mem.current.ref])])
                      ELSE Raised(w)
          [] k = 2 -> Ok(SaveStatus(
                         [w EXCEPT !.mem.current.stage.uploaded = index + 1]))
          [] k = 3 -> IF age \in w.files
                      THEN Ok([w EXCEPT !.files = @ \ {age}])
                      ELSE Raised(w)
          [] k = 4 -> Ok(SaveStatus(
                         [w EXCEPT !.mem.current.stage.removed = index + 1]))

\* A __dequeue_backup_task without its save.
DequeueBackupTaskUnsaved(w) ==
    IF Len(w.mem.queue) = 0 THEN w
    ELSE LET popped == [w EXCEPT !.mem.queue = Tail(@)]
         IN  [popped EXCEPT !.mem = LoadBackupTask(popped)]

\* __dequeue_backup_task: pop, __load_backup_task, save.
DequeueBackupTask(w) ==
    IF Len(w.mem.queue) = 0 THEN w
    ELSE LET popped == [w EXCEPT !.mem.queue = Tail(@)]
         IN  SaveStatus([popped EXCEPT !.mem = LoadBackupTask(popped)])

\* __handle_done_stage, statement k.
HandleDoneStage(w, k) ==
    LET task == Head(w.mem.queue)
    IN  CASE k = 1 -> Ok([w EXCEPT !.latest =
                             SetLatest(@, task.pool, task.type,
                                       LastComponent(w.mem.current.base))])
          [] k = 2 -> Ok(DequeueBackupTask(w))

\* The number of statements of a stage handler that change the world.
NumEffects(stage) ==
    CASE stage = "export" -> 2
      [] stage = "compress" -> 5
      [] stage = "encrypt" -> 3
      [] stage = "upload" -> 4
      [] stage = "done" -> 2

Effect(w, stage, index, k, verifyOk) ==
    CASE stage = "export" -> HandleExportStage(w, k)
      [] stage = "compress" -> HandleCompressStage(w, index, k, verifyOk)
      [] stage = "encrypt" -> HandleEncryptStage(w, index, k)
      [] stage = "upload" -> HandleUpdateStage(w, index, k)
      [] stage = "done" -> HandleDoneStage(w, k)

\* Statements k..n of a handler in order, stopping at the first that raises.
RECURSIVE Exec(_, _, _, _, _, _)
Exec(w, stage, index, k, n, verifyOk) ==
    IF k > n THEN [w |-> w, out |-> "ok"]
    ELSE LET r == Effect(w, stage, index, k, verifyOk)
         IN  IF ~r.ok THEN [w |-> r.w, out |-> "raised"]
             ELSE Exec(r.w, stage, index, k + 1, n, verifyOk)

\* run(auto=False) without the error-stage check.
RunOnceUnchecked(w, cut, verifyOk) ==
    IF Len(w.mem.queue) = 0 THEN [w |-> w, out |-> "idle"]
    ELSE Exec(w, GetStage(w.mem)[1], GetStage(w.mem)[2], 1,
              NumEffects(GetStage(w.mem)[1]), verifyOk)

\* run(auto=False), the process being killed after `cut` statements of the
\* handler when cut is less than their number; the killed process is
\* constructed anew from the persisted document.
RunOnce(w, cut, verifyOk) ==
    IF Len(w.mem.queue) = 0 THEN [w |-> w, out |-> "idle"]
    ELSE LET g == GetStage(w.mem)
         IN  IF IsErrorStage(g[2], g[3]) THEN [w |-> w, out |-> "error_stage"]
             ELSE LET n == NumEffects(g[1])
                      r == Exec(w, g[1], g[2], 1, Min(cut, n), verifyOk)
                  IN  IF r.out = "raised" THEN r
                      ELSE IF cut < n
                          THEN [w |-> Construct(r.w), out |-> "crashed"]
                      ELSE r

\* run(auto=True): the call recurs after every handler but the done handler.
RECURSIVE RunAuto(_, _)
RunAuto(w, verifyOk) ==
    IF Len(w.mem.queue) = 0 THEN [w |-> w, out |-> "idle"]
    ELSE LET g == GetStage(w.mem)
         IN  IF IsErrorStage(g[2], g[3]) THEN [w |-> w, out |-> "error_stage"]
             ELSE LET r == Exec(w, g[1], g[2], 1, NumEffects(g[1]), verifyOk)
                  IN  IF r.out = "raised" THEN r
                      ELSE IF g[1] = "done" THEN [w |-> r.w, out |-> "done"]
                      ELSE RunAuto(r.w, verifyOk)

\* The handler statements whose collaborator can signal shutdown: export,
\* compress and verify, set_latest (the encryptor and the remote storage
\* of the app never do).
ShutdownPoints(stage) ==
    CASE stage = "export" -> {1}
      [] stage = "compress" -> {1, 3}
      [] stage = "encrypt" -> {}
      [] stage = "upload" -> {}
      [] stage = "done" -> {1}

\* What a collaborator raises to signal shutdown, and what run catches.
ShutdownSignal == "RuntimeError"
Caught(exception) == exception = "SystemShutdownError"

\* run(auto=False) during which the collaborator of statement k signals
\* shutdown: the statements before k are done, the exception is caught by
\* run (out "shutdown") or leaves it (out "shutdown_raised").
RunInterrupted(w, k) ==
    LET g == GetStage(w.mem)
        r == Exec(w, g[1], g[2], 1, k - 1, TRUE)
    IN  IF r.out = "raised" THEN r
        ELSE [w |-> r.w,
              out |-> IF Caught(ShutdownSignal) THEN "shutdown"
                      ELSE "shutdown_raised"]

\* enqueue_backup_task
EnqueueBackupTask(w, task) ==
    SaveStatus([w EXCEPT !.mem.queue = Append(@, task)])

(***************************************************************************)
(* The app driver as a state machine.  app is the world of one driver      *)
(* process: the status document (disk), the driver's status object (mem),  *)
(* the local chunk files, the remote objects and the latest-snapshot       *)
(* records; issued (tasks created so far, the next task's date) belongs    *)
(* to the environment.  last records the operation that led to the state.  *)
(***************************************************************************)
Idle == <<>>

InitLatest == {NoLatest, SetLatest(NoLatest, "pool1", "full", <<"s1">>)}

\* The driver constructed over a missing status file.
AppInit ==
    /\ \E l \in InitLatest :
          app = Construct([disk |-> NewStatus, mem |-> NewStatus,
                           files |-> {}, remote |-> {}, latest |-> l,
                           issued |-> 0])
    /\ last = [op |-> "init", auto |-> FALSE, stage |-> "none", index |-> 0,
               out |-> "ok"]
    /\ leg = Idle
    /\ inf = Idle

\* The stage the next run call dispatches.
NextStage(w) ==
    IF Len(w.mem.queue) = 0 THEN <<"none", 0, 0>> ELSE GetStage(w.mem)

\* The record of an operation applied to world w with outcome out.
LastOf(op, auto, w, out) ==
    [op |-> op, auto |-> auto, stage |-> NextStage(w)[1],
     index |-> NextStage(w)[2], out |-> out]

\* One complete run(auto=False) call.
RunSingle ==
    \E verifyOk \in BOOLEAN :
        /\ app' = RunOnce(app, 5, verifyOk).w
        /\ last' = LastOf("run", FALSE, app, RunOnce(app, 5, verifyOk).out)
        /\ UNCHANGED <<leg, inf>>

\* A run(auto=False) call killed inside its handler, and the restart.
RunKilled ==
    \E cut \in 1..4 :
        /\ Len(app.mem.queue) > 0
        /\ ~IsErrorStage(GetStage(app.mem)[2], GetStage(app.mem)[3])
        /\ cut < NumEffects(GetStage(app.mem)[1])
        /\ app' = RunOnce(app, cut, TRUE).w
        /\ last' = LastOf("run", FALSE, app, RunOnce(app, cut, TRUE).out)
        /\ UNCHANGED <<leg, inf>>

\* A run(auto=False) call during which a collaborator signals shutdown.
RunShutdown ==
    \E k \in 1..3 :
        /\ Len(app.mem.queue) > 0
        /\ ~IsErrorStage(GetStage(app.mem)[2], GetStage(app.mem)[3])
        /\ k \in ShutdownPoints(GetStage(app.mem)[1])
        /\ app' = RunInterrupted(app, k).w
        /\ last' = LastOf("run", FALSE, app, RunInterrupted(app, k).out)
        /\ UNCHANGED <<leg, inf>>

\* The process is killed between two run calls and constructed anew.
Crash ==
    /\ app' = Construct(app)
    /\ last' = LastOf("restart", FALSE, app, "crashed")
    /\ UNCHANGED <<leg, inf>>

\* One complete run(auto=True) call.
RunAutoCall ==
    \E verifyOk \in BOOLEAN :
        /\ app' = RunAuto(app, verifyOk).w
        /\ last' = LastOf("run", TRUE, app, RunAuto(app, verifyOk).out)
        /\ UNCHANGED <<leg, inf>>

\* enqueue_backup_task of a new target.
Enqueue ==
    \E type \in BackupTypes :
        /\ app.issued < MaxQueue
        /\ app' = [EnqueueBackupTask(
                       app, Task(app.issued + 1, type, "pool1"))
                   EXCEPT !.issued = @ + 1]
        /\ last' = [op |-> "enqueue", auto |-> FALSE, stage |-> "none",
                    index |-> 0, out |-> "ok"]
        /\ UNCHANGED <<leg, inf>>

AppNext ==
    RunSingle \/ RunKilled \/ RunShutdown \/ Crash \/ RunAutoCall \/ Enqueue

Spec == AppInit /\ [][AppNext]_vars

(***************************************************************************)
(* The legacy driver: src/archive/python-legacy/backup_manager.py over     *)
(* StatusManager (status_manager.py).  The three documents (task queue,    *)
(* current task, latest snapshots) are read back by restore_status on      *)
(* every iteration, so the world holds the documents only.  The split      *)
(* list is kept as its length; loaded tells whether the current-task       *)
(* document was written by _load_task for the present head.                *)
(***************************************************************************)
LegStage(exported, tested, spit, counter, verify) ==
    [snapshot_exported |-> exported, snapshot_tested |-> tested,
     spit |-> spit, compressed |-> counter, encrypted |-> counter,
     uploaded |-> counter, verify |-> verify, cleared |-> counter]

\* The hasher: reset, update(in_hash), update(data), digest.  A digest is
\* the pair of what was fed, so that two digests are equal exactly when the
\* same values were fed in the same order; the chunk of index i of the
\* stream is the bytes context[i * chunk_size : (i + 1) * chunk_size].
EmptyHash == <<>>
Chunk(index) == <<index>>
Hash(in_hash, data) == <<in_hash, data>>

\* A splitter that hashes the chunk alone.
SplitHashAlone(in_hash, index) == Hash(EmptyHash, Chunk(index))

\* MockExtractor.split: the digest returned for chunk index.
SplitHash(in_hash, index) == Hash(in_hash, Chunk(index))

\* The list stage.spit after n split steps of an uninterrupted task.
RECURSIVE ChainOf(_)
ChainOf(n) ==
    IF n = 0 THEN <<>>
    ELSE LET before == ChainOf(n - 1)
         IN  Append(before,
                    Hash(IF n = 1 THEN EmptyHash ELSE before[n - 1],
                         Chunk(n - 1)))

\* The CurrentTask that _load_task builds before it resolves base and ref.
BlankTask ==
    [base |-> EmptyName, ref |-> EmptyName, split_quantity |-> -1,
     stage |-> LegStage(FALSE, FALSE, 0, -1, FALSE)]

\* StatusManager.restore_status: (stage, total, current).
RestoreStatus(w) ==
    LET stage == w.current.stage
        split_count == stage.spit
        total_split_qty == w.current.split_quantity
    IN  IF Len(w.queue) = 0 THEN <<"done", 0, 0>>
        ELSE IF ~stage.snapshot_exported THEN <<"snapshot_export", 0, 0>>
        ELSE IF ~stage.snapshot_tested THEN <<"snapshot_test", 0, 0>>
        ELSE IF split_count > total_split_qty
            THEN <<"split", -total_split_qty, -split_count>>
        ELSE IF split_count = 0 THEN <<"split", total_split_qty, 0>>
        ELSE IF /\ split_count = total_split_qty
                /\ stage.compressed = split_count
                /\ stage.encrypted = split_count
                /\ stage.uploaded = split_count
                /\ stage.cleared = split_count
            THEN IF stage.verify THEN <<"done", 0, 0>>
                 ELSE <<"verify", split_count, 0>>
        ELSE IF stage.compressed < 0
            THEN <<"compress", -split_count, stage.compressed>>
        ELSE IF stage.encrypted < 0
            THEN <<"encrypt", -split_count, stage.encrypted>>
        ELSE IF stage.uploaded < 0
            THEN <<"upload", -split_count, stage.uploaded>>
        ELSE IF stage.cleared < 0
            THEN <<"clear", -split_count, stage.cleared>>
        ELSE IF stage.compressed < split_count
            THEN <<"compress", split_count, stage.compressed>>
        ELSE IF stage.compressed > split_count
            THEN <<"compress", -split_count, -stage.compressed>>
        ELSE IF stage.encrypted < split_count
            THEN <<"encrypt", split_count, stage.encrypted>>
        ELSE IF stage.encrypted > split_count
            THEN <<"encrypt", -split_count, -stage.encrypted>>
        ELSE IF stage.uploaded < split_count
            THEN <<"upload", split_count, stage.uploaded>>
        ELSE IF stage.uploaded > split_count
            THEN <<"upload", -split_count, -stage.uploaded>>
        ELSE IF stage.cleared < split_count
            THEN <<"clear", split_count, stage.cleared>>
        ELSE IF stage.cleared > split_count
            THEN <<"clear", -split_count, -stage.cleared>>
        ELSE <<"split", total_split_qty, split_count>>

\* StatusManager._load_task: a new CurrentTask for the head; the lookup of
\* the reference raises KeyError (before the save) when no snapshot of the
\* wanted type is recorded for the dataset.
LoadTask(w) ==
    IF Len(w.queue) = 0 THEN Ok(w)
    ELSE LET task == Head(w.queue)
             wanted == IF task.type = "diff" THEN "full" ELSE "diff"
             ref == IF task.type = "full" THEN EmptyName
                    ELSE GetLatest(w.latest, task.pool, wanted)
         IN  IF task.type # "full" /\ ref = EmptyName THEN Raised(w)
             ELSE Ok([w EXCEPT
                        !.current = [BlankTask EXCEPT
                                        !.base = ListSnapshots(task.pool)[1],
                                        !.ref = ref],
                        !.chain = <<>>,
                        !.loaded = TRUE])

\* StatusManager.enqueue_task
EnqueueTask(w, task) ==
    [w EXCEPT !.queue = Append(@, task),
              !.loaded = IF Len(w.queue) = 0 THEN FALSE ELSE @]

\* StatusManager.dequeue_task: pop, save the queue, _load_task.
DequeueTask(w) ==
    IF Len(w.queue) = 0 THEN Ok(w)
    ELSE LoadTask([w EXCEPT !.queue = Tail(@)])

\* StatusManager.update_latest_snapshot
UpdateLatestSnapshot(w, pool, type, name) ==
    [w EXCEPT !.latest = SetLatest(@, pool, type, name)]

\* StatusManager.update_split_quantity
UpdateSplitQuantity(w, quantity) ==
    IF quantity <= 0 THEN Raised(w)
    ELSE Ok([w EXCEPT !.current.split_quantity = quantity])

\* StatusManager.update_stage
UpdateStage(w, stage, value) ==
    CASE stage = "snapshot_export" ->
             [w EXCEPT !.current.stage.snapshot_exported = value]
      [] stage = "snapshot_test" ->
             [w EXCEPT !.current.stage.snapshot_tested = value]
      [] stage = "split" -> [w EXCEPT !.current.stage.spit = @ + 1,
                                      !.chain = Append(@, value)]
      [] stage = "compress" -> [w EXCEPT !.current.stage.compressed = value]
      [] stage = "encrypt" -> [w EXCEPT !.current.stage.encrypted = value]
      [] stage = "upload" -> [w EXCEPT !.current.stage.uploaded = value]
      [] stage = "verify" -> [w EXCEPT !.current.stage.verify = value]
      [] stage = "clear" -> [w EXCEPT !.current.stage.cleared = value]

\* The exported stream of a task and its chunk files.
SnapshotFile(dir) == ChunkFile(dir, -1, RawExt)
PartExt == ".p"
PartFile(dir, index) == ChunkFile(dir, index, PartExt)
PartZst(dir, index) == ChunkFile(dir, index, ".p.zst")
PartAge(dir, index) == ChunkFile(dir, index, ".p.zst.age")

Out(w, out) == [w |-> w, out |-> out]

\* The splitter's chunk_size and the sizes of the exported stream, in bytes.
ChunkSize == 2
StreamSizes == 0..(MaxParts * ChunkSize + 1)

\* split_quantity = file_size // self.__splitter.chunk_size
SplitQuantity(size) == size \div ChunkSize

\* __handle_export_stage; quantity is file_size // chunk_size of the stream.
LegHandleExport(w, quantity) ==
    LET dir == TempPath(Head(w.queue))
        exported == [w EXCEPT !.files = @ \cup {SnapshotFile(dir)}]
        sized == UpdateSplitQuantity(exported, quantity)
    IN  IF ~sized.ok THEN Out(exported, "raised")
        ELSE Out(UpdateStage(sized.w, "snapshot_export", TRUE), "ok")

\* __handle_export_test_stage; ok is the verdict of the snapshot handler.
LegHandleExportTest(w, ok) ==
    Out(UpdateStage(w, "snapshot_test", ok), IF ok THEN "ok" ELSE "rejected")

\* __handle_split_stage: in_hash is the last value of the list stage.spit
\* (held by chain; stage.spit is its length), or empty for chunk 0.
LegHandleSplit(w, index) ==
    LET dir == TempPath(Head(w.queue))
        in_hash == IF index > 0 THEN w.chain[Len(w.chain)] ELSE EmptyHash
    IN  IF SnapshotFile(dir) \notin w.files THEN Out(w, "raised")
        ELSE Out(UpdateStage([w EXCEPT !.files = @ \cup {PartFile(dir, index)}],
                             "split", SplitHash(in_hash, index)), "ok")

\* __handle_split_stage killed after the splitter wrote the chunk file and
\* before update_stage.
LegHandleSplitKilled(w, index) ==
    [w EXCEPT !.files = @ \cup {PartFile(TempPath(Head(w.queue)), index)}]

\* __handle_compress_stage; ok is the codec's verdict.
LegHandleCompress(w, index, ok) ==
    LET dir == TempPath(Head(w.queue))
        compressed == [w EXCEPT !.files = @ \cup {PartZst(dir, index)}]
    IN  IF PartFile(dir, index) \notin w.files THEN Out(w, "raised")
        ELSE IF ~ok THEN Out(compressed, "rejected")
        ELSE Out([UpdateStage(compressed, "compress", index)
                      EXCEPT !.files = @ \ {PartFile(dir, index)}], "ok")

\* __handle_encrypt_stage: decrypt writes the plain text over the compressed
\* file, which is deleted after hashing; the counter is saved and the second
\* delete of the compressed file raises.
LegHandleEncrypt(w, index) ==
    LET dir == TempPath(Head(w.queue))
        encrypted == [w EXCEPT !.files =
                         (@ \cup {PartAge(dir, index)}) \ {PartZst(dir, index)}]
    IN  IF PartZst(dir, index) \notin w.files THEN Out(w, "raised")
        ELSE Out(UpdateStage(encrypted, "encrypt", index), "raised")

\* __handle_update_stage
LegHandleUpdate(w, index) ==
    LET task == Head(w.queue)
        age == PartAge(TempPath(task), index)
        uploaded == [w EXCEPT !.remote =
                        Upload(@, age, task.type,
                               [pool |-> task.pool, base |-> w.current.base,
                                ref |-> w.current.ref])]
    IN  IF age \notin w.files THEN Out(w, "raised")
        ELSE Out([UpdateStage(uploaded, "upload", index)
                      EXCEPT !.files = @ \ {age}], "ok")

\* __handle_verify_stage; same tells whether the hash of the stream equals
\* the last hash of the split list.
LegHandleVerify(w, same) ==
    IF SnapshotFile(TempPath(Head(w.queue))) \notin w.files
           \/ w.current.stage.spit = 0
    THEN Out(w, "raised")
    ELSE Out(UpdateStage(w, "verify", same), IF same THEN "ok" ELSE "rejected")

\* __handle_clear_stage: the counter is set to True, which is 1.
LegHandleClear(w) ==
    LET snapshot == SnapshotFile(TempPath(Head(w.queue)))
    IN  IF snapshot \notin w.files THEN Out(w, "raised")
        ELSE Out(UpdateStage([w EXCEPT !.files = @ \ {snapshot}], "clear", 1),
                 "ok")

\* __handle_done_stage
LegHandleDone(w) ==
    LET task == Head(w.queue)
        r == DequeueTask(
                 UpdateLatestSnapshot(w, task.pool, task.type, w.current.base))
    IN  Out(r.w, IF r.ok THEN "ok" ELSE "raised")

\* __handle_done_stage killed after cut of its three writes: the
\* latest-snapshot document, the queue document (the head popped), the
\* current-task document written at the end of _load_task.
LegHandleDoneKilled(w, cut) ==
    LET task == Head(w.queue)
        updated == UpdateLatestSnapshot(w, task.pool, task.type,
                                        w.current.base)
    IN  IF cut = 1 THEN updated
        ELSE [updated EXCEPT !.queue = Tail(@), !.loaded = FALSE]

\* __handle_export_stage killed after cut of its three writes: the stream
\* file, the current-task document saved by update_split_quantity, the
\* current-task document saved by update_stage.
LegHandleExportKilled(w, quantity, cut) ==
    LET exported == [w EXCEPT !.files = @ \cup
                                 {SnapshotFile(TempPath(Head(w.queue)))}]
    IN  IF cut = 1 THEN exported
        ELSE UpdateSplitQuantity(exported, quantity).w

\* The handler that run dispatches for (stage, current).
LegDispatch(w, stage, current, quantity, ok) ==
    CASE stage = "snapshot_export" -> LegHandleExport(w, quantity)
      [] stage = "snapshot_test" -> LegHandleExportTest(w, ok)
      [] stage = "split" -> LegHandleSplit(w, current)
      [] stage = "compress" -> LegHandleCompress(w, current, ok)
      [] stage = "encrypt" -> LegHandleEncrypt(w, current)
      [] stage = "upload" -> LegHandleUpdate(w, current)
      [] stage = "verify" -> LegHandleVerify(w, ok)
      [] stage = "clear" -> LegHandleClear(w)
      [] stage = "done" -> LegHandleDone(w)

\* One iteration of the loop of run.
LegRunOnce(w, quantity, ok) ==
    IF Len(w.queue) = 0 THEN Out(w, "idle")
    ELSE LET g == RestoreStatus(w)
         IN  IF IsErrorStage(g[3], g[2]) THEN Out(w, "error_stage")
             ELSE LegDispatch(w, g[1], g[3], quantity, ok)

\* run(auto=True): the loop goes on until the queue is empty, an error stage
\* is inferred or a handler raises.  A handler that returns after a false
\* verdict does not end the loop; ok is the verdict of the first
\* verification of the call, a verification attempted again succeeds (with
\* a verdict that stays false the loop does not end).
RECURSIVE LegRunAuto(_, _, _)
LegRunAuto(w, quantity, ok) ==
    LET r == LegRunOnce(w, quantity, ok)
    IN  IF r.out = "ok" THEN LegRunAuto(r.w, quantity, ok)
        ELSE IF r.out = "rejected" THEN LegRunAuto(r.w, quantity, TRUE)
        ELSE r

(***************************************************************************)
(* The legacy driver as a state machine.  StatusManager creates no         *)
(* document: the operator provides the three it loads.  The current-task   *)
(* documents provided are the ones of the repository's tests: a task       *)
(* written by hand with zero counters, and a completed task, verified or   *)
(* not.                                                                    *)
(***************************************************************************)
HandTask ==
    [base |-> ListSnapshots("pool1")[1], ref |-> EmptyName,
     split_quantity |-> MaxParts,
     stage |-> LegStage(FALSE, FALSE, 0, 0, FALSE)]

CompletedTask(verify) ==
    [HandTask EXCEPT !.stage = LegStage(TRUE, TRUE, MaxParts, MaxParts, verify)]

\* A task with one chunk split and every later stage done for that chunk
\* (the document of test_pending_split); its stream file is still there.
PendingSplitTask ==
    [HandTask EXCEPT !.stage = LegStage(TRUE, TRUE, 1, 1, FALSE)]

InitTasks ==
    {HandTask, PendingSplitTask, CompletedTask(FALSE), CompletedTask(TRUE)}

InitQueues == UNION {[1..n -> BackupTypes] : n \in 0..MaxQueue}

QueueOf(types) == [i \in 1..Len(types) |-> Task(i, types[i], "pool1")]

LegInit ==
    /\ \E types \in InitQueues, l \in InitLatest, c \in InitTasks :
          leg = [queue |-> QueueOf(types), current |-> c, latest |-> l,
                 files |-> IF c = PendingSplitTask /\ Len(types) > 0
                           THEN {SnapshotFile(TempPath(QueueOf(types)[1]))}
                           ELSE {},
                 remote |-> {}, loaded |-> FALSE,
                 chain |-> ChainOf(c.stage.spit),
                 issued |-> Len(types)]
    /\ last = [op |-> "init", auto |-> FALSE, stage |-> "none", index |-> 0,
               out |-> "ok"]
    /\ app = Idle
    /\ inf = Idle

\* The record of a legacy operation applied to world w with outcome out.
LegLastOf(op, auto, w, out) ==
    [op |-> op, auto |-> auto, stage |-> RestoreStatus(w)[1],
     index |-> RestoreStatus(w)[3], out |-> out]

\* One run(auto=False) call.
LegRun ==
    \E size \in StreamSizes, ok \in BOOLEAN :
        /\ leg' = LegRunOnce(leg, SplitQuantity(size), ok).w
        /\ last' = LegLastOf("run", FALSE, leg,
                             LegRunOnce(leg, SplitQuantity(size), ok).out)
        /\ UNCHANGED <<app, inf>>

\* One run(auto=True) call.
LegRunAutoCall ==
    \E size \in StreamSizes, ok \in BOOLEAN :
        /\ leg' = LegRunAuto(leg, SplitQuantity(size), ok).w
        /\ last' = LegLastOf("run", TRUE, leg,
                             LegRunAuto(leg, SplitQuantity(size), ok).out)
        /\ UNCHANGED <<app, inf>>

\* enqueue_task of a new target.
LegEnqueue ==
    \E type \in BackupTypes :
        /\ leg.issued < MaxQueue
        /\ leg' = [EnqueueTask(leg, Task(leg.issued + 1, type, "pool1"))
                   EXCEPT !.issued = @ + 1]
        /\ last' = [op |-> "enqueue", auto |-> FALSE, stage |-> "none",
                    index |-> 0, out |-> "ok"]
        /\ UNCHANGED <<app, inf>>

\* A run(auto=False) call killed inside the export, split or done handler,
\* between two of its writes; StatusManager is then constructed
\* anew over the three documents.
LegRunKilled ==
    \E cut \in 1..2, size \in StreamSizes :
        /\ Len(leg.queue) > 0
        /\ SplitQuantity(size) > 0
        /\ RestoreStatus(leg)[1] \in {"snapshot_export", "split", "done"}
        /\ RestoreStatus(leg)[1] = "split"
               => /\ cut = 1 /\ size = ChunkSize
                  /\ SnapshotFile(TempPath(Head(leg.queue))) \in leg.files
        /\ ~IsErrorStage(RestoreStatus(leg)[3], RestoreStatus(leg)[2])
        /\ leg' = CASE RestoreStatus(leg)[1] = "done" ->
                           LegHandleDoneKilled(leg, cut)
                     [] RestoreStatus(leg)[1] = "split" ->
                           LegHandleSplitKilled(leg, RestoreStatus(leg)[3])
                     [] OTHER ->
                           LegHandleExportKilled(leg, SplitQuantity(size), cut)
        /\ last' = LegLastOf("run", FALSE, leg, "crashed")
        /\ UNCHANGED <<app, inf>>

LegNext == LegRun \/ LegRunKilled \/ LegRunAutoCall \/ LegEnqueue

SpecLegacy == LegInit /\ [][LegNext]_vars

(***************************************************************************)
(* Stage inference on bounded current-task documents (SpecInfer).          *)
(* A document carries the fields of MockStatusManager's Stage and the      *)
(* verify flag of the legacy Stage; the split list is kept as its length   *)
(* and a hash as whether it is non-empty.  counters lists compressed,      *)
(* compressed_test, encrypted, encrypted_test, uploaded, cleared.          *)
(***************************************************************************)
\* MockStatusManager.restore_status: (stage, total, current).
MockRestoreStatus(tasks, d) ==
    LET split_count == d.spited
        c == d.counters
    IN  IF tasks = 0 THEN <<"done", 0, 0>>
        ELSE IF ~d.snapshot_exported THEN <<"snapshot_export", 0, 0>>
        ELSE IF ~d.snapshot_tested THEN <<"snapshot_test", 0, 0>>
        ELSE IF ~d.snapshot_hash THEN <<"snapshot_hash", 0, 0>>
        ELSE IF split_count = 0 THEN <<"split", 0, 0>>
        ELSE IF split_count = d.split_quantity THEN <<"done", 0, split_count>>
        ELSE IF c[1] < split_count THEN <<"compress", split_count, c[1]>>
        ELSE IF c[1] > split_count THEN <<"compress", -split_count, -c[1]>>
        ELSE IF c[2] < split_count THEN <<"compress_test", split_count, c[2]>>
        ELSE IF c[2] > split_count
            THEN <<"compress_test", -split_count, -c[2]>>
        ELSE IF ~d.compressed_hash
            THEN <<"compress_hash", split_count, split_count>>
        ELSE IF c[3] < split_count THEN <<"encrypt", split_count, c[3]>>
        ELSE IF c[3] > split_count THEN <<"encrypt", -split_count, -c[3]>>
        ELSE IF c[4] < split_count THEN <<"encrypt_test", split_count, c[4]>>
        ELSE IF c[4] > split_count
            THEN <<"encrypt_test", -split_count, -c[4]>>
        ELSE IF ~d.encrypted_hash
            THEN <<"encrypt_hash", split_count, split_count>>
        ELSE IF c[5] < split_count THEN <<"upload", split_count, c[5]>>
        ELSE IF c[5] > split_count THEN <<"upload", -split_count, -c[5]>>
        ELSE IF c[6] < split_count THEN <<"clear", split_count, c[6]>>
        ELSE IF c[6] > split_count THEN <<"clear", -split_count, -c[6]>>
        ELSE <<"split", split_count, split_count>>

\* The document as the legacy StatusManager reads it.
AsLegacy(tasks, d) ==
    [queue |-> [i \in 1..tasks |-> Task(i, "full", "pool1")],
     current |-> [base |-> EmptyName, ref |-> EmptyName,
                  split_quantity |-> d.split_quantity,
                  stage |-> [snapshot_exported |-> d.snapshot_exported,
                             snapshot_tested |-> d.snapshot_tested,
                             spit |-> d.spited,
                             compressed |-> d.counters[1],
                             encrypted |-> d.counters[3],
                             uploaded |-> d.counters[5],
                             verify |-> d.verify,
                             cleared |-> d.counters[6]]]]

\* Counter values of the documents: -1 (as _load_task writes) up to one
\* more than the longest split list.
CounterValues == (-1)..(MaxParts + 1)

\* The six counters: the first k equal to the length of the split list, the
\* next one v, the others w.
Counters(spited, k, v, w) ==
    [i \in 1..6 |-> IF i <= k THEN spited ELSE IF i = k + 1 THEN v ELSE w]

\* How far the stream got: exported, tested, hashed.
Prefixes == {<<FALSE, FALSE, FALSE>>, <<TRUE, FALSE, FALSE>>,
             <<TRUE, TRUE, FALSE>>, <<TRUE, TRUE, TRUE>>}

Document(p, sq, spited, c, ch, eh, verify) ==
    [snapshot_exported |-> p[1], snapshot_tested |-> p[2],
     snapshot_hash |-> p[3], split_quantity |-> sq, spited |-> spited,
     counters |-> c, compressed_hash |-> ch, encrypted_hash |-> eh,
     verify |-> verify]

InferInit ==
    /\ \E tasks \in 0..1, p \in Prefixes, sq \in (-1)..MaxParts,
          spited \in 0..(MaxParts + 1), k \in 0..6,
          v \in CounterValues, w \in CounterValues,
          ch \in BOOLEAN, eh \in BOOLEAN, verify \in BOOLEAN :
          /\ tasks = 0 =>
                 /\ p = <<FALSE, FALSE, FALSE>> /\ sq = -1 /\ spited = 0
                 /\ k = 6 /\ v = -1 /\ w = -1 /\ ~ch /\ ~eh /\ ~verify
          /\ k = 6 => (v = -1 /\ w = -1)
          /\ k = 5 => w = -1
          /\ inf = [tasks |-> tasks,
                    doc |-> Document(p, sq, spited, Counters(spited, k, v, w),
                                     ch, eh, verify),
                    by |-> "none", out |-> <<"none", 0, 0>>]
    /\ last = [op |-> "init", auto |-> FALSE, stage |-> "none", index |-> 0,
               out |-> "ok"]
    /\ app = Idle
    /\ leg = Idle

\* MockStatusManager.restore_status applied to the document.
InferMock ==
    /\ inf.by = "none"
    /\ inf' = [inf EXCEPT !.by = "mock",
                          !.out = MockRestoreStatus(inf.tasks, inf.doc)]
    /\ UNCHANGED <<app, last, leg>>

\* The legacy StatusManager.restore_status applied to the document.
InferLegacy ==
    /\ inf.by = "none"
    /\ inf' = [inf EXCEPT !.by = "legacy",
                          !.out = RestoreStatus(AsLegacy(inf.tasks, inf.doc))]
    /\ UNCHANGED <<app, last, leg>>

InferNext == InferMock \/ InferLegacy

SpecInfer == InferInit /\ [][InferNext]_vars

(***************************************************************************)
(* Properties of the app driver (specification Spec).                      *)
(***************************************************************************)
\* What survives the process: the status document, the latest-snapshot
\* records and the remote objects.
Persisted(w) == [status |-> w.disk, latest |-> w.latest, remote |-> w.remote]

\* run(auto=False) called again and again by one process until the queue is
\* empty or a call does not complete its handler.
RECURSIVE RunSteps(_)
RunSteps(w) ==
    IF Len(w.mem.queue) = 0 THEN w
    ELSE LET r == RunOnce(w, 5, TRUE)
         IN  IF r.out # "ok" THEN r.w ELSE RunSteps(r.w)

\* C1: a driver constructed anew after a crash resumes the head task at the
\* stage and chunk index that stage inference yields from the persisted
\* document.
C1_ResumeAtPersisted ==
    (/\ last.out = "crashed"
     /\ Len(app.mem.queue) > 0
     /\ GetStage(app.disk)[2] >= 0 /\ GetStage(app.disk)[3] >= 0)
        => GetStage(app.mem) = GetStage(app.disk)

\* C2: the done step removes the head task only when every chunk of that
\* task's stream has an object in the remote storage.
C2_DoneOnlyAfterUpload ==
    [][(Len(app.mem.queue) > 0 /\ Len(app'.mem.queue) < Len(app.mem.queue))
          => \A i \in 0..(MaxParts - 1) :
                \E o \in app'.remote :
                    o.key = ChunkFile(TempPath(Head(app.mem.queue)), i, AgeExt)
      ]_vars

\* C3: from any state, single-step runs repeated until the queue is empty
\* leave the same persisted state as one run(auto=True) call.
C3_StepsEqualAuto ==
    Persisted(RunSteps(app)) = Persisted(RunAuto(app, TRUE).w)

\* C5: a run(auto=True) call that met no error returns with an empty queue.
C5_AutoReturnsOnEmptyQueue ==
    (last.op = "run" /\ last.auto /\ last.out \in {"idle", "done"})
        => Len(app.mem.queue) = 0

\* C10: a run call whose stage inference is negative in progress or target
\* returns at the error check, before any handler statement, and changes no
\* document, no file, no remote object and no latest record.
C10_ErrorStageChangesNothing ==
    [][(/\ last'.op = "run"
        /\ Len(app.mem.queue) > 0
        /\ (GetStage(app.mem)[2] < 0 \/ GetStage(app.mem)[3] < 0))
          => (last'.out = "error_stage" /\ app' = app)]_vars

\* C10 happens: an auto run found a negative inference and returned.
C10_Witness ==
    /\ last.op = "run" /\ last.auto
    /\ last.index < 0
    /\ last.out = "error_stage"

\* C11: a compress step whose verify returns false leaves the persisted
\* status as it was before the step, keeps the uncompressed chunk and
\* uploads nothing.
C11_FailedVerifyKeepsProgress ==
    [][(/\ last'.op = "run" /\ ~last'.auto
        /\ last'.stage = "compress" /\ last'.out = "raised"
        /\ ChunkFile(TempPath(Head(app.mem.queue)), last'.index, RawExt)
               \in app.files)
          => /\ app'.disk = app.disk
             /\ ChunkFile(TempPath(Head(app.mem.queue)), last'.index, RawExt)
                    \in app'.files
             /\ app'.remote = app.remote]_vars

\* C15: after a compress step of chunk i that did not complete, the
\* persisted compressed counter does not count chunk i.
C15_SaveAfterVerify ==
    (/\ last.op = "run" /\ ~last.auto
     /\ last.stage = "compress" /\ last.out = "raised")
        => app.disk.current.stage.compressed <= last.index

\* C13: a run call during which a collaborator signalled shutdown returned
\* without raising, and the next inference is the stage and chunk index of
\* the interrupted step.
C13_ShutdownReturnsAndResumes ==
    last.out \in {"shutdown", "shutdown_raised"}
        => /\ last.out = "shutdown"
           /\ NextStage(app)[1] = last.stage
           /\ NextStage(app)[2] = last.index

\* C14: a handler never deletes its input file before the save that records
\* the step: when run is killed inside the encrypt handler and the status
\* document has not changed, the compressed chunk the handler was given is
\* still there for the stage to be run again after the restart.
C14_InputKeptUntilSaved ==
    [][(/\ last'.op = "run" /\ last'.out = "crashed"
        /\ last'.stage = "encrypt"
        /\ ChunkFile(TempPath(Head(app.mem.queue)), last'.index, ZstExt)
               \in app.files
        /\ app'.disk = app.disk)
          => ChunkFile(TempPath(Head(app.mem.queue)), last'.index, ZstExt)
                 \in app'.files]_vars

\* C17: a task that becomes the queue head by enqueue onto an empty queue
\* has a fresh current task initialized for it: base and ref resolved for
\* the target, every stage field at its initial value, so that the stage
\* inferred first is export.
C17_EnqueuedHeadIsInitialized ==
    (last.op = "enqueue" /\ Len(app.mem.queue) = 1)
        => /\ app.mem.current = LoadBackupTask(app).current
           /\ app.disk.current = LoadBackupTask(app).current
           /\ GetStage(app.mem)[1] = "export"

\* C20: a diff or incr task whose reference is missing (ref "ERROR_NONE")
\* never has its export flag set, in memory or in the status document, and
\* no chunk of it is uploaded.
C20_MissingRefNeverExported ==
    /\ (Len(app.mem.queue) > 0 /\ app.mem.current.ref = ErrorNone)
           => ~app.mem.current.stage.exported
    /\ (Len(app.disk.queue) > 0 /\ app.disk.current.ref = ErrorNone)
           => ~app.disk.current.stage.exported
    /\ \A o \in app.remote : o.metadata.ref # ErrorNone

\* C21: after a task is initialized (the driver is constructed over a
\* non-empty queue), ref is the empty name for full, the recorded latest full
\* snapshot for diff and the recorded latest diff snapshot for incr
\* ("ERROR_NONE" when none is recorded); every object a run(auto=False) call
\* uploads carries that value as its ref-snapshot metadata.
C21_RefResolvedByType ==
    [][/\ (last'.out = "crashed" /\ Len(app'.mem.queue) > 0)
            => app'.mem.current.ref =
                 LET type == Head(app'.mem.queue).type
                     pool == Head(app'.mem.queue).pool
                     wanted == IF type = "diff" THEN "full" ELSE "diff"
                 IN  IF type = "full" THEN EmptyName
                     ELSE IF GetLatest(app'.latest, pool, wanted) = EmptyName
                          THEN ErrorNone
                          ELSE GetLatest(app'.latest, pool, wanted)
       /\ (last'.op = "run" /\ ~last'.auto)
            => \A o \in app'.remote \ app.remote :
                 o.metadata.ref =
                   LET type == Head(app.mem.queue).type
                       pool == Head(app.mem.queue).pool
                       wanted == IF type = "diff" THEN "full" ELSE "diff"
                   IN  IF type = "full" THEN EmptyName
                       ELSE GetLatest(app.latest, pool, wanted)]_vars

\* A diff task has uploaded a chunk whose ref-snapshot is the recorded
\* latest full snapshot.
C21_Witness ==
    /\ last.op = "run" /\ ~last.auto /\ last.stage = "upload"
    /\ \E o \in app.remote :
          /\ o.tags = "diff"
          /\ o.metadata.ref = GetLatest(app.latest, "pool1", "full")
          /\ o.metadata.ref # EmptyName

\* C22: after the done step of a task, the latest-snapshot entry of the
\* task's (dataset, type) has the name that is the base of the task.
C22_LatestIsBaseAfterDone ==
    [][(/\ last'.op = "run" /\ ~last'.auto
        /\ last'.stage = "done" /\ last'.out = "ok")
          => GetLatest(app'.latest, Head(app.mem.queue).pool,
                       Head(app.mem.queue).type) = app.mem.current.base]_vars

C24_DoneDequeuesOne ==
    [][(/\ last'.op = "run" /\ ~last'.auto
        /\ last'.stage = "done" /\ last'.out = "ok")
          => /\ app'.mem.queue = Tail(app.mem.queue)
             /\ app'.disk.queue = Tail(app.mem.queue)
             /\ Len(app'.disk.queue) = Len(app.mem.queue) - 1]_vars

\* The done step has run on a queue of two tasks and left the second.
C24_Witness ==
    /\ last.op = "run" /\ ~last.auto /\ last.stage = "done" /\ last.out = "ok"
    /\ Len(app.disk.queue) = 1
    /\ app.disk.queue[1].date = MaxQueue

\* C25: when a task with split_quantity N completes (its done step runs),
\* the remote store holds exactly N objects of that task, one for every
\* chunk index 0..N-1 under the key of that index, each with the task's type
\* as its tag and the task's base and ref as its metadata.
C25_RemoteHoldsEveryChunk ==
    [][(/\ last'.op = "run" /\ ~last'.auto
        /\ last'.stage = "done" /\ last'.out = "ok")
          => LET task == Head(app.mem.queue)
                 mine == {o \in app'.remote : o.key.dir = TempPath(task)}
             IN  /\ {o.key : o \in mine}
                        = {ChunkFile(TempPath(task), i, AgeExt) :
                               i \in 0..(app.mem.current.split_quantity - 1)}
                 /\ Cardinality(mine) = app.mem.current.split_quantity
                 /\ \A o \in mine :
                        /\ o.tags = task.type
                        /\ o.metadata.base = app.mem.current.base
                        /\ o.metadata.ref = app.mem.current.ref]_vars

\* C26: when a task has completed and been dequeued, no local chunk file of
\* that task (raw, compressed or encrypted) remains in its temp directory.
C26_NoChunkFileAfterDone ==
    [][(/\ last'.op = "run" /\ ~last'.auto
        /\ last'.stage = "done" /\ last'.out = "ok")
          => FilesIn(app'.files, TempPath(Head(app.mem.queue))) = {}]_vars

\* C31: a chunk is encrypted only after its compressed file passed the
\* compression verify.  The compress handler deletes the raw chunk only after
\* a passed verify, so a successful encrypt step of chunk i finds the raw
\* chunk i gone.
C31_EncryptOnlyVerified ==
    [][(/\ last'.op = "run" /\ ~last'.auto
        /\ last'.stage = "encrypt" /\ last'.out = "ok")
          => ChunkFile(TempPath(Head(app.mem.queue)), last'.index, RawExt)
                 \notin app.files]_vars

\* n successive run(auto=False) calls, each one complete and with a passing
\* compression verify (the loop of run_backup_workflow).
RECURSIVE RunTimes(_, _)
RunTimes(w, n) ==
    IF n = 0 THEN w ELSE RunOnce(RunTimes(w, n - 1), 5, TRUE).w

\* C38: from a one-task queue not yet exported, with an empty temp directory
\* and an empty remote store, whose export yields N >= 1 chunks: the first
\* run(auto=False) call exports N chunk files, the next N calls compress
\* chunks 0..N-1, the next N encrypt them, the next N upload them and one more
\* call completes the task; every call succeeds, the queue is non-empty before
\* each of the 3N+2 calls and empty after the last, and the remote store then
\* holds N objects.
C38_ThreeNPlusTwoCalls ==
    (/\ Len(app.mem.queue) = 1
     /\ ~app.mem.current.stage.exported
     /\ app.remote = {}
     /\ FilesIn(app.files, TempPath(Head(app.mem.queue))) = {})
        => LET N == RunTimes(app, 1).mem.current.split_quantity
               dir == TempPath(Head(app.mem.queue))
           IN  N >= 1 =>
                 /\ FilesIn(RunTimes(app, 1).files, dir)
                        = {ChunkFile(dir, i, RawExt) : i \in 0..(N - 1)}
                 /\ \A j \in 1..(3 * N + 2) :
                        LET before == RunTimes(app, j - 1)
                            g == GetStage(before.mem)
                        IN  /\ Len(before.mem.queue) = 1
                            /\ RunOnce(before, 5, TRUE).out = "ok"
                            /\ g[1] = IF j = 1 THEN "export"
                                      ELSE IF j <= N + 1 THEN "compress"
                                      ELSE IF j <= 2 * N + 1 THEN "encrypt"
                                      ELSE IF j <= 3 * N + 1 THEN "upload"
                                      ELSE "done"
                            /\ (j > 1 /\ j <= 3 * N + 1) => g[2] = (j - 2) % N
                 /\ RunTimes(app, 3 * N + 2).mem.queue = <<>>
                 /\ RunTimes(app, 3 * N + 2).disk.queue = <<>>
                 /\ Cardinality(RunTimes(app, 3 * N + 2).remote) = N

\* A freshly loaded one-task queue whose export yields MaxParts chunks.
C38_Witness ==
    /\ Len(app.mem.queue) = 1
    /\ ~app.mem.current.stage.exported
    /\ app.remote = {}
    /\ FilesIn(app.files, TempPath(Head(app.mem.queue))) = {}
    /\ RunTimes(app, 1).mem.current.split_quantity = MaxParts
    /\ Cardinality(RunTimes(app, 3 * MaxParts + 2).remote) = MaxParts

(***************************************************************************)
(* Properties of the legacy driver (specification SpecLegacy).             *)
(***************************************************************************)
\* C4: after a run(auto=False) call whose handler succeeded, stage inference
\* no longer returns the stage and chunk index that the call dispatched.
C4_StepAdvancesInference ==
    (/\ last.op = "run" /\ ~last.auto
     /\ last.out = "ok"
     /\ last.stage # "done")
        => <<last.stage, last.index>>
               # <<RestoreStatus(leg)[1], RestoreStatus(leg)[3]>>

\* C6: a head task initialised by _load_task never infers an error stage.
C6_LoadedHeadNeverErrorStage ==
    (leg.loaded /\ Len(leg.queue) > 0)
        => (RestoreStatus(leg)[2] >= 0 /\ RestoreStatus(leg)[3] >= 0)

\* C7: the counters of an exported head task initialised by _load_task are
\* ordered 0 <= cleared <= uploaded <= encrypted <= compressed <= len(split)
\* <= split_quantity.
C7_CountersOrdered ==
    LET c == leg.current
    IN  (/\ leg.loaded /\ Len(leg.queue) > 0
         /\ c.stage.snapshot_exported /\ c.split_quantity > 0)
            => /\ 0 <= c.stage.cleared
               /\ c.stage.cleared <= c.stage.uploaded
               /\ c.stage.uploaded <= c.stage.encrypted
               /\ c.stage.encrypted <= c.stage.compressed
               /\ c.stage.compressed <= c.stage.spit
               /\ c.stage.spit <= c.split_quantity

(***************************************************************************)
(* Properties of stage inference (specification SpecInfer).                *)
(***************************************************************************)
\* C8: the progress and the target returned by stage inference are both
\* non-negative or both negative, never of mixed signs.
C8_NoMixedSigns ==
    inf.by # "none"
        => \/ (inf.out[2] >= 0 /\ inf.out[3] >= 0)
           \/ (inf.out[2] < 0 /\ inf.out[3] < 0)

\* C9: for a non-empty queue MockStatusManager's inference returns done only
\* if the six counters equal the length of the split list, that length
\* equals split_quantity and both hashes are non-empty, and then it returns
\* (done, 0, split_quantity).
C9_DoneOnlyWhenComplete ==
    (inf.by = "mock" /\ inf.tasks > 0 /\ inf.out[1] = "done")
        => /\ \A i \in 1..6 : inf.doc.counters[i] = inf.doc.spited
           /\ inf.doc.spited = inf.doc.split_quantity
           /\ inf.doc.compressed_hash /\ inf.doc.encrypted_hash
           /\ inf.out = <<"done", 0, inf.doc.split_quantity>>

\* C12: a run(auto=True) call stops at the first verification that returns
\* false: it leaves the world as the failed handler left it.
C12_StopsOnFailedVerification ==
    (Len(leg.queue) > 0 /\ LegRunOnce(leg, MaxParts, FALSE).out = "rejected")
        => LegRunAuto(leg, MaxParts, FALSE).w
               = LegRunOnce(leg, MaxParts, FALSE).w

\* C16 (legacy driver, SpecLegacy): no crash point inside dequeue leaves the
\* queue document with the old head removed and another task at the head
\* while the current-task document still holds the removed task's progress.
C16_DequeueLeavesNoStaleCurrent ==
    [][(/\ last'.op = "run" /\ last'.out = "crashed"
        /\ last'.stage = "done"
        /\ Len(leg.queue) > 1
        /\ leg'.queue = Tail(leg.queue))
          => leg'.current # leg.current]_vars

\* C18 (SpecLegacy): immediately after a current task is initialized (the
\* done handler dequeued the previous head and loaded the next one), the
\* counters compressed, encrypted, uploaded and cleared are 0, split is
\* empty, snapshot_exported is empty, snapshot_tested and verify are false.
C18_InitializedCountersAreZero ==
    (/\ last.op = "run" /\ ~last.auto
     /\ last.stage = "done" /\ last.out = "ok"
     /\ Len(leg.queue) > 0)
        => leg.current.stage = LegStage(FALSE, FALSE, 0, 0, FALSE)

\* C19 (SpecLegacy): when the done handler initializes a diff (resp. incr)
\* task and no latest full (resp. diff) snapshot is recorded for its
\* dataset, the initialization completes with the persisted ref equal to
\* "ERROR_NONE": it does not raise.
C19_MissingRefIsErrorNone ==
    [][(/\ last'.op = "run" /\ ~last'.auto
        /\ last'.stage = "done" /\ last'.out # "crashed"
        /\ Len(leg.queue) > 1
        /\ leg.queue[2].type # "full"
        /\ GetLatest(leg'.latest, leg.queue[2].pool,
                     IF leg.queue[2].type = "diff" THEN "full" ELSE "diff")
               = EmptyName)
          => /\ last'.out = "ok"
             /\ leg'.current.ref = ErrorNone]_vars

\* C27 (SpecLegacy): the export step commits split_quantity and the exported
\* marker in one save: whenever run is killed inside the export handler, the
\* current-task document has either both changes or none.
C27_ExportCommitsTogether ==
    [][(/\ last'.op = "run" /\ last'.out = "crashed"
        /\ last'.stage = "snapshot_export")
          => ((leg'.current.split_quantity # leg.current.split_quantity)
                <=> (leg'.current.stage.snapshot_exported
                        # leg.current.stage.snapshot_exported))]_vars

\* C28 (SpecLegacy): the export of a stream of S >= 1 bytes with chunk size
\* C succeeds and persists split_quantity = ceiling(S / C); a stream smaller
\* than one chunk yields split_quantity 1.
C28_SplitQuantityIsCeiling ==
    (/\ Len(leg.queue) > 0
     /\ RestoreStatus(leg)[1] = "snapshot_export"
     /\ ~IsErrorStage(RestoreStatus(leg)[3], RestoreStatus(leg)[2]))
        => \A size \in StreamSizes \ {0} :
              /\ LegHandleExport(leg, SplitQuantity(size)).out = "ok"
              /\ LegHandleExport(leg, SplitQuantity(size)).w
                     .current.split_quantity
                   = (size + ChunkSize - 1) \div ChunkSize

\* C29 (SpecLegacy): in every reachable state the list of split hashes is a
\* chain: its entry i is the hash of entry i-1 (the empty byte string for
\* i = 0) followed by the bytes of chunk i, also when a split step was killed
\* and run again.
C29_SplitHashesChain ==
    /\ Len(leg.chain) = leg.current.stage.spit
    /\ \A i \in 1..Len(leg.chain) :
          leg.chain[i] = Hash(IF i = 1 THEN EmptyHash ELSE leg.chain[i - 1],
                              Chunk(i - 1))

\* The split step of chunk 1 has run and appended the second entry.
C29_Witness ==
    /\ last.op = "run" /\ last.stage = "split" /\ last.index = 1
    /\ last.out = "ok"
    /\ Len(leg.chain) = 2

\* C30 (SpecLegacy): within a chunk-indexed stage the indexes dispatched
\* ascend by one: after the handler of the compress stage succeeded for chunk
\* i, the stage has completed i + 1 chunks, and when the compress stage is
\* inferred again the index it carries is i + 1.
C30_IndexesAscend ==
    [][(/\ last'.op = "run" /\ ~last'.auto
        /\ last'.stage = "compress" /\ last'.out = "ok")
          => /\ leg'.current.stage.compressed = last'.index + 1
             /\ RestoreStatus(leg')[1] = "compress"
                    => RestoreStatus(leg')[3] = last'.index + 1]_vars

\* The stages of the six counters, in the order restore_status reads them.
CounterStages ==
    <<"compress", "compress_test", "encrypt", "encrypt_test", "upload",
      "clear">>

\* C32 (SpecInfer): with a non-empty queue, export, test and hash done, a
\* split list of length 1..split_quantity, every counter before the k-th
\* equal to that length (and the hashes read before it non-empty) and the
\* k-th counter c with 0 <= c < len(split), inference returns
\* (stage of c, len(split), c).
C32_InProgressCounter ==
    \A k \in 1..6 :
        (/\ inf.by = "mock" /\ inf.tasks > 0
         /\ inf.doc.snapshot_exported /\ inf.doc.snapshot_tested
         /\ inf.doc.snapshot_hash
         /\ inf.doc.spited >= 1 /\ inf.doc.spited <= inf.doc.split_quantity
         /\ \A i \in 1..(k - 1) : inf.doc.counters[i] = inf.doc.spited
         /\ (k > 2 => inf.doc.compressed_hash)
         /\ (k > 4 => inf.doc.encrypted_hash)
         /\ inf.doc.counters[k] >= 0
         /\ inf.doc.counters[k] < inf.doc.spited)
            => inf.out = <<CounterStages[k], inf.doc.spited,
                           inf.doc.counters[k]>>

\* C33 (SpecInfer): when the k-th counter c exceeds the length of the split
\* list (at least 1) and every counter before it equals that length,
\* inference returns the error tuple (stage of c, -len(split), -c).
C33_CounterAboveSplit ==
    \A k \in 1..6 :
        (/\ inf.by = "mock" /\ inf.tasks > 0
         /\ inf.doc.snapshot_exported /\ inf.doc.snapshot_tested
         /\ inf.doc.snapshot_hash
         /\ inf.doc.spited >= 1
         /\ \A i \in 1..(k - 1) : inf.doc.counters[i] = inf.doc.spited
         /\ (k > 2 => inf.doc.compressed_hash)
         /\ (k > 4 => inf.doc.encrypted_hash)
         /\ inf.doc.counters[k] > inf.doc.spited)
            => inf.out = <<CounterStages[k], -inf.doc.spited,
                           -inf.doc.counters[k]>>

\* C34 (SpecInfer): with export and test done (and the stream hash, where the
\* document has one) and a split list longer than a positive split_quantity,
\* inference returns (split, -split_quantity, -len(split)) whatever the counters are.
C34_SplitAboveQuantity ==
    (/\ inf.by # "none" /\ inf.tasks > 0
     /\ inf.doc.snapshot_exported /\ inf.doc.snapshot_tested
     /\ inf.doc.snapshot_hash
     /\ inf.doc.split_quantity > 0
     /\ inf.doc.spited > inf.doc.split_quantity)
        => inf.out = <<"split", -inf.doc.split_quantity, -inf.doc.spited>>

\* C36 (SpecInfer): with export and test done, every per-chunk counter equal
\* to the length of the split list (hashes non-empty) and that length below
\* split_quantity, inference returns (split, split_quantity, len(split)).
C36_PendingSplit ==
    (/\ inf.by # "none" /\ inf.tasks > 0
     /\ inf.doc.snapshot_exported /\ inf.doc.snapshot_tested
     /\ inf.doc.snapshot_hash
     /\ \A i \in 1..6 : inf.doc.counters[i] = inf.doc.spited
     /\ inf.doc.compressed_hash /\ inf.doc.encrypted_hash
     /\ inf.doc.spited >= 1
     /\ inf.doc.spited < inf.doc.split_quantity)
        => inf.out = <<"split", inf.doc.split_quantity, inf.doc.spited>>

\* C35 (SpecInfer): a document whose export (with test and stream hash) is
\* recorded as done but whose split_quantity is <= 0 is inferred as the error
\* tuple (snapshot_export, -1, split_quantity), never as a split stage.
C35_NoQuantityIsExportError ==
    (/\ inf.by = "mock" /\ inf.tasks > 0
     /\ inf.doc.snapshot_exported /\ inf.doc.snapshot_tested
     /\ inf.doc.snapshot_hash
     /\ inf.doc.split_quantity <= 0)
        => inf.out = <<"snapshot_export", -1, inf.doc.split_quantity>>

\* C39 (SpecLegacy): a successful run(auto=False) step from a state in which
\* the input file of the inferred stage exists leads to a state in which the
\* input file of the stage inferred next exists: the exported stream for
\* split, the raw chunk i for compress, the compressed chunk i for encrypt,
\* the encrypted chunk i for upload.
C39_InputFileExists ==
    [][(/\ last'.op = "run" /\ ~last'.auto /\ last'.out = "ok"
        /\ Len(leg.queue) > 0 /\ Len(leg'.queue) > 0
        /\ Head(leg'.queue) = Head(leg.queue))
          => LET r == RestoreStatus(leg')
                 dir == TempPath(Head(leg'.queue))
             IN  (r[2] >= 0 /\ r[3] >= 0) =>
                   /\ r[1] = "split" => SnapshotFile(dir) \in leg'.files
                   /\ r[1] = "compress" => PartFile(dir, r[3]) \in leg'.files
                   /\ r[1] = "encrypt" => PartZst(dir, r[3]) \in leg'.files
                   /\ r[1] = "upload" => PartAge(dir, r[3]) \in leg'.files]_vars

(***************************************************************************)
(* update_stage and its save (specification SpecStage).  In SpecStage the  *)
(* variable leg holds a legacy StatusManager (w: its world, saved: the     *)
(* current-task document on disk, saves: the number of save_current_task   *)
(* calls) beside a MockStatusManager (m, msaved, msaves), and the last     *)
(* update_stage call.                                                      *)
(***************************************************************************)
MaxCalls == 2

\* The stage names that the match of the legacy update_stage has an arm for.
LegacyStageFields ==
    {"snapshot_export", "snapshot_test", "split", "compress", "encrypt",
     "upload", "verify", "clear"}

\* The stage names that MockStatusManager.update_stage has an arm for.
MockStageFields ==
    {"snapshot_export", "snapshot_test", "snapshot_hash", "split",
     "compress", "compress_test", "compress_hash", "encrypt", "encrypt_test",
     "encrypt_hash", "upload", "clear"}

\* The calls update_stage(stage, value): every name of BackupTaskStage (of
\* either generation, "done" has no field in both) with values of its type.
StageCalls ==
    {<<s, b>> : s \in {"snapshot_export", "snapshot_test", "snapshot_hash",
                       "compress_hash", "encrypt_hash", "verify"},
                b \in BOOLEAN}
    \cup {<<"split", Hash(EmptyHash, Chunk(i))>> : i \in 0..1}
    \cup {<<s, n>> : s \in {"compress", "compress_test", "encrypt",
                            "encrypt_test", "upload", "clear", "done"},
                     n \in 0..MaxParts}

\* A save that writes the document twice.
LegSaveCurrentTaskTwice(s) ==
    [s EXCEPT !.saved = [current |-> s.w.current, chain |-> s.w.chain],
              !.saves = @ + 2]

\* StatusFilesIo.save_current_task(self._current_task), counted.
LegSaveCurrentTask(s) ==
    [s EXCEPT !.saved = [current |-> s.w.current, chain |-> s.w.chain],
              !.saves = @ + 1]

\* StatusManager.update_stage: the match, then the save; a name without an
\* arm raises ValueError before the save.
LegUpdateStageCall(s, stage, value) ==
    IF stage \notin LegacyStageFields THEN [s EXCEPT !.raised = TRUE]
    ELSE LegSaveCurrentTask([s EXCEPT !.w = UpdateStage(s.w, stage, value),
                                      !.raised = FALSE])

\* The match of MockStatusManager.update_stage on m = [doc, spited] (the
\* document and its spited list).
MockUpdateStage(m, stage, value) ==
    CASE stage = "snapshot_export" ->
             [m EXCEPT !.doc.snapshot_exported = value]
      [] stage = "snapshot_test" -> [m EXCEPT !.doc.snapshot_tested = value]
      [] stage = "snapshot_hash" -> [m EXCEPT !.doc.snapshot_hash = value]
      [] stage = "split" -> [m EXCEPT !.doc.spited = @ + 1,
                                      !.spited = Append(@, value)]
      [] stage = "compress" -> [m EXCEPT !.doc.counters[1] = value]
      [] stage = "compress_test" -> [m EXCEPT !.doc.counters[2] = value]
      [] stage = "compress_hash" -> [m EXCEPT !.doc.compressed_hash = value]
      [] stage = "encrypt" -> [m EXCEPT !.doc.counters[3] = value]
      [] stage = "encrypt_test" -> [m EXCEPT !.doc.counters[4] = value]
      [] stage = "encrypt_hash" -> [m EXCEPT !.doc.encrypted_hash = value]
      [] stage = "upload" -> [m EXCEPT !.doc.counters[5] = value]
      [] stage = "clear" -> [m EXCEPT !.doc.counters[6] = value]

\* MockStatusManager.save_current_task, counted.
MockSaveCurrentTask(s) == [s EXCEPT !.msaved = s.m, !.msaves = @ + 1]

\* MockStatusManager.update_stage.
MockUpdateStageCall(s, stage, value) ==
    IF stage \notin MockStageFields THEN [s EXCEPT !.raised = TRUE]
    ELSE MockSaveCurrentTask([s EXCEPT !.m = MockUpdateStage(s.m, stage, value),
                                       !.raised = FALSE])

\* The field of the legacy current task that belongs to a stage name.
LegFieldOf(w, stage) ==
    CASE stage = "snapshot_export" -> w.current.stage.snapshot_exported
      [] stage = "snapshot_test" -> w.current.stage.snapshot_tested
      [] stage = "split" -> <<w.current.stage.spit, w.chain>>
      [] stage = "compress" -> w.current.stage.compressed
      [] stage = "encrypt" -> w.current.stage.encrypted
      [] stage = "upload" -> w.current.stage.uploaded
      [] stage = "verify" -> w.current.stage.verify
      [] stage = "clear" -> w.current.stage.cleared

\* The field of the Mock's current task that belongs to a stage name.
MockFieldOf(m, stage) ==
    CASE stage = "snapshot_export" -> m.doc.snapshot_exported
      [] stage = "snapshot_test" -> m.doc.snapshot_tested
      [] stage = "snapshot_hash" -> m.doc.snapshot_hash
      [] stage = "split" -> <<m.doc.spited, m.spited>>
      [] stage = "compress" -> m.doc.counters[1]
      [] stage = "compress_test" -> m.doc.counters[2]
      [] stage = "compress_hash" -> m.doc.compressed_hash
      [] stage = "encrypt" -> m.doc.counters[3]
      [] stage = "encrypt_test" -> m.doc.counters[4]
      [] stage = "encrypt_hash" -> m.doc.encrypted_hash
      [] stage = "upload" -> m.doc.counters[5]
      [] stage = "clear" -> m.doc.counters[6]

\* Both managers hold a loaded current task that is also the one on disk.
StageInit ==
    /\ \E c \in InitTasks, p \in Prefixes, n \in 0..1 :
          LET w == [queue |-> QueueOf(<<"full">>), current |-> c,
                    latest |-> NoLatest, files |-> {}, remote |-> {},
                    loaded |-> TRUE, chain |-> ChainOf(c.stage.spit),
                    issued |-> 1]
              m == [doc |-> Document(p, MaxParts, n, Counters(n, 6, -1, -1),
                                     FALSE, FALSE, FALSE),
                    spited |-> ChainOf(n)]
          IN  leg = [w |-> w, saved |-> [current |-> c, chain |-> w.chain],
                     saves |-> 0, m |-> m, msaved |-> m, msaves |-> 0,
                     calls |-> 0, by |-> "none", call |-> <<"none", 0>>,
                     raised |-> FALSE]
    /\ last = [op |-> "init", auto |-> FALSE, stage |-> "none", index |-> 0,
               out |-> "ok"]
    /\ app = Idle
    /\ inf = Idle

\* One update_stage call on the legacy StatusManager.
StageLegacy ==
    \E call \in StageCalls :
        /\ leg.calls < MaxCalls
        /\ leg' = [LegUpdateStageCall(leg, call[1], call[2])
                      EXCEPT !.calls = @ + 1, !.by = "legacy", !.call = call]
        /\ UNCHANGED <<app, last, inf>>

\* One update_stage call on the MockStatusManager.
StageMock ==
    \E call \in StageCalls :
        /\ leg.calls < MaxCalls
        /\ leg' = [MockUpdateStageCall(leg, call[1], call[2])
                      EXCEPT !.calls = @ + 1, !.by = "mock", !.call = call]
        /\ UNCHANGED <<app, last, inf>>

StageNext == StageLegacy \/ StageMock

SpecStage == StageInit /\ [][StageNext]_vars

\* C37 (SpecStage): an update_stage call with a stage name that has a field
\* changes that field only (the split list grows by the value at its end,
\* any other field becomes the value), saves the current task once, and the
\* document on disk is then the one in memory; with a name that has no field
\* it raises, changes nothing and saves nothing.  So the number of saves is
\* the number of calls that did not raise.
C37_UpdateStageFrame ==
    [][leg'.calls = leg.calls + 1 =>
         LET stage == leg'.call[1]
             value == leg'.call[2]
         IN  /\ (leg'.by = "legacy" /\ stage \in LegacyStageFields) =>
                    /\ ~leg'.raised
                    /\ leg'.saves = leg.saves + 1
                    /\ leg'.saved = [current |-> leg'.w.current,
                                     chain |-> leg'.w.chain]
                    /\ \A s \in LegacyStageFields \ {stage} :
                           LegFieldOf(leg'.w, s) = LegFieldOf(leg.w, s)
                    /\ LegFieldOf(leg'.w, stage) =
                           IF stage = "split"
                           THEN <<leg.w.current.stage.spit + 1,
                                  Append(leg.w.chain, value)>>
                           ELSE value
                    /\ [leg'.w EXCEPT !.current.stage = leg.w.current.stage,
                                      !.chain = leg.w.chain] = leg.w
                    /\ leg'.m = leg.m /\ leg'.msaved = leg.msaved
                    /\ leg'.msaves = leg.msaves
             /\ (leg'.by = "mock" /\ stage \in MockStageFields) =>
                    /\ ~leg'.raised
                    /\ leg'.msaves = leg.msaves + 1
                    /\ leg'.msaved = leg'.m
                    /\ \A s \in MockStageFields \ {stage} :
                           MockFieldOf(leg'.m, s) = MockFieldOf(leg.m, s)
                    /\ MockFieldOf(leg'.m, stage) =
                           IF stage = "split"
                           THEN <<leg.m.doc.spited + 1,
                                  Append(leg.m.spited, value)>>
                           ELSE value
                    /\ leg'.m.doc.split_quantity = leg.m.doc.split_quantity
                    /\ leg'.m.doc.verify = leg.m.doc.verify
                    /\ leg'.w = leg.w /\ leg'.saved = leg.saved
                    /\ leg'.saves = leg.saves
             /\ (\/ leg'.by = "legacy" /\ stage \notin LegacyStageFields
                 \/ leg'.by = "mock" /\ stage \notin MockStageFields) =>
                    /\ leg'.raised
                    /\ leg'.w = leg.w /\ leg'.saved = leg.saved
                    /\ leg'.saves = leg.saves
                    /\ leg'.m = leg.m /\ leg'.msaved = leg.msaved
                    /\ leg'.msaves = leg.msaves]_vars

\* Two calls on the legacy manager, the second one a split, both saved.
C37_Witness ==
    /\ leg.calls = MaxCalls /\ leg.by = "legacy" /\ leg.call[1] = "split"
    /\ leg.saves = MaxCalls
    /\ Len(leg.w.chain) > 0
    /\ leg.saved.chain = leg.w.chain

(***************************************************************************)
(* The hash chain of the legacy splitter with SumHasher (specification     *)
(* SpecHash).  SumHasher's _sum is a number below 2^32; it is kept here as *)
(* the four bytes, most significant first, that digest returns             *)
(* (_sum.to_bytes(4, "big")), and additions drop the carry out of the      *)
(* first byte, which is the reduction modulo 2^32.  In SpecHash the        *)
(* variable inf holds the bytes of the exported stream, the list           *)
(* stage.spit of digests and the verdict of the verify stage.              *)
(***************************************************************************)
ByteBase == 256

\* The byte values the streams are drawn from.
ByteValues == {0, 1, 255}

\* SumHasher.reset: _sum = 0.
SumReset == <<0, 0, 0, 0>>

\* (_sum + x) % 2**32 for one byte x.
SumAdd(sum, x) ==
    LET t4 == sum[4] + x
        t3 == sum[3] + t4 \div ByteBase
        t2 == sum[2] + t3 \div ByteBase
        t1 == sum[1] + t2 \div ByteBase
    IN  <<t1 % ByteBase, t2 % ByteBase, t3 % ByteBase, t4 % ByteBase>>

\* SumHasher.update(data): _sum = (_sum + sum(data)) % 2**32.
RECURSIVE SumUpdate(_, _)
SumUpdate(sum, data) ==
    IF data = <<>> THEN sum
    ELSE SumUpdate(SumAdd(sum, Head(data)), Tail(data))

\* MockExtractor.split: the digest of in_hash followed by the chunk
\* context[offset : offset + chunk_size] of the stream.
SumSplit(context, index, in_hash) ==
    LET offset == index * ChunkSize
        data == SubSeq(context, offset + 1, Min(offset + ChunkSize, Len(context)))
    IN  SumUpdate(SumUpdate(SumReset, in_hash), data)

\* The streams: N chunks of chunk_size bytes each, N in 1..MaxParts.
Streams ==
    UNION {[1..(n * ChunkSize) -> ByteValues] : n \in 1..MaxParts}

HashInit ==
    /\ \E stream \in Streams :
          inf = [stream |-> stream, spit |-> <<>>, verify |-> "none"]
    /\ last = [op |-> "init", auto |-> FALSE, stage |-> "none", index |-> 0,
               out |-> "ok"]
    /\ app = Idle
    /\ leg = Idle

\* __handle_split_stage for the next chunk of the stream.
HashSplit ==
    /\ Len(inf.spit) < SplitQuantity(Len(inf.stream))
    /\ LET index == Len(inf.spit)
           in_hash == IF index > 0 THEN inf.spit[index] ELSE <<>>
       IN  inf' = [inf EXCEPT !.spit =
                       Append(@, SumSplit(inf.stream, index, in_hash))]
    /\ UNCHANGED <<app, last, leg>>

\* __handle_verify_stage once every chunk is split: the digest of the whole
\* stream file against spit[-1].
HashVerify ==
    /\ Len(inf.spit) = SplitQuantity(Len(inf.stream))
    /\ inf.verify = "none"
    /\ LET full_file_hash == SumUpdate(SumReset, inf.stream)
           split_file_hash == inf.spit[Len(inf.spit)]
       IN  inf' = [inf EXCEPT !.verify =
                       IF full_file_hash = split_file_hash
                       THEN "same" ELSE "differ"]
    /\ UNCHANGED <<app, last, leg>>

HashNext == HashSplit \/ HashVerify

SpecHash == HashInit /\ [][HashNext]_vars

\* C40 (SpecHash): when the chunks 0..N-1 partition the stream exactly, the
\* digest of the whole stream equals the last value of the chain, so the
\* verify stage never records false.
C40_VerifyAlwaysSame == inf.verify # "differ"

====
